---- MODULE Spec2Model ----
(***************************************************************************)
(* Model of the bingo client (src/src/App.jsx): the Card Store             *)
(* (bingoCards), the transmission sequencer (transmitNextCard and its      *)
(* 100 ms continuation), the inbound event handler                         *)
(* (handleWebSocketMessage) with its deferred card selection, the          *)
(* WebSocket life cycle and the user operations of the page.               *)
(*                                                                         *)
(* React is modelled at the granularity of one handler: a handler, the     *)
(* render that follows it and the effects of that render are one step.     *)
(* State captured by a closure that outlives the step (the FileReader      *)
(* onload callback, the setTimeout callbacks) is kept in the pending       *)
(* continuation, as the closure keeps it.                                  *)
(* Indices into bingoCards are 1-based here; selectedCardIndex keeps the   *)
(* 0-based value of the code.                                              *)
(***************************************************************************)
EXTENDS Integers, Sequences, FiniteSets, TLC

\* ------------------------------------------------------------------ bounds
MaxCards == 3      \* cards created in a session (manual + parsed)
MaxImports == 2    \* file imports started in a session
MaxEvents == 3     \* inbound messages delivered in a session
MaxPlays == 1      \* clicks on PLAY in a session
MaxImportsEv == 1  \* file imports started in a session of SpecEv
MaxEventsEv == 2   \* inbound messages delivered in a session of SpecEv
MaxWords == 25     \* words on a line of a file of SpecParse

\* ------------------------------------------------- LANGUAGE_CONFIGS totals
SpanishTotal == 24
EnglishTotal == 14
PortugueseTotal == 20
DutchTotal == 10

\* Object.entries(LANGUAGE_CONFIGS), in declaration order
LANGUAGE_CONFIGS ==
  << [lang |-> "spanish", total |-> SpanishTotal],
     [lang |-> "english", total |-> EnglishTotal],
     [lang |-> "portuguese", total |-> PortugueseTotal],
     [lang |-> "dutch", total |-> DutchTotal] >>

\* detectLanguage comparing the total with the number of tokens of the line,
\* the id included
DetectLanguageCountingId(wordCount) ==
  LET hits == {i \in 1..Len(LANGUAGE_CONFIGS) : LANGUAGE_CONFIGS[i].total = wordCount + 1}
  IN IF hits = {} THEN "spanish"
     ELSE LANGUAGE_CONFIGS[CHOOSE i \in hits : \A j \in hits : i <= j].lang

\* detectLanguage: the first entry whose total is wordCount, else 'spanish'
DetectLanguage(wordCount) ==
  LET hits == {i \in 1..Len(LANGUAGE_CONFIGS) : LANGUAGE_CONFIGS[i].total = wordCount}
  IN IF hits = {} THEN "spanish"
     ELSE LANGUAGE_CONFIGS[CHOOSE i \in hits : \A j \in hits : i <= j].lang

\* ------------------------------------------------------------ input values
\* word lists the user's cards are drawn from: 10 words (dutch), 14 words
\* (english), 2 words (no descriptor: default language)
DutchWords == <<"SOL", "LUNA", "d3", "d4", "d5", "d6", "d7", "d8", "d9", "d10">>
EnglishWords == <<"SOL", "MAR", "e3", "e4", "e5", "e6", "e7", "e8", "e9", "e10",
                  "e11", "e12", "e13", "e14">>
ShortWords == <<"LUNA", "LUNA">>

\* String.prototype.trim on the texts the model types
Trim(s) == CASE s = " " -> ""
             [] s = " c1 " -> "c1"
             [] OTHER -> s

\* what the user submits in the manual form: the card id field and the
\* lines of the word list (manualInput.split('\n'))
ManualEntries ==
  { <<" ", DutchWords>>,
    <<"c1", <<" ", "">> >>,
    <<" c1 ", <<"SOL", " ", "LUNA", "">> \o SubSeq(DutchWords, 3, 10)>> }

\* files the user can pick, as lines of whitespace-separated tokens
\* (a blank line has no token)
FileContents ==
  { << <<"c3">> \o ShortWords >>,
    << <<"c2">> \o EnglishWords, <<>>, <<"c4">>, <<"c1">> \o DutchWords >> }

\* inbound word_selected fields; "none" stands for an absent field
CalledWords == {"SOL", "LUNA"}
None == [some |-> FALSE, val |-> <<>>]
Some(v) == [some |-> TRUE, val |-> v]
CardIdLists == {None, Some(<<"c7", "c1">>), Some(<<"c1", "c2">>)}
EventLanguages == {"none", "dutch"}
RoundLanguages == {"dutch"}
WinnerLists == {None, Some(<<>>), Some(<<"Ana">>)}
UserNames == {"", "ana"}
PlayerCounts == {2}

\* ------------------------------------------------------------------- state
VARIABLES
  readyState,          \* socketRef.current: "none" (null) or the socket's readyState
  socketReady,
  showStartModal,
  showLoadModal,
  userName,
  bingoCards,          \* the Card Store
  selectedCardIndex,
  currentWord,
  currentLanguage,
  playerCount,
  gameStarted,
  winners,
  showWinnersModal,
  roundWinners,
  roundLanguage,
  showRoundWinnersModal,
  isTransmitting,
  txTimers,            \* pending setTimeout(..., 100) callbacks of transmitNextCard
  selTimers,           \* pending setTimeout(..., 0) callbacks of word_selected
  fileReads,           \* FileReaders whose onload has not run yet
  outbound,            \* frames handed to socket.send, in order
  nextUid,             \* cards created so far + 1 (names each created card)
  nImports,
  nEvents,
  nPlays,
  lastEvent            \* the inbound message the last step handled, or the input it rejected (op "none": neither)

vars == << readyState, socketReady, showStartModal, showLoadModal, userName,
           bingoCards, selectedCardIndex, currentWord, currentLanguage,
           playerCount, gameStarted, winners, showWinnersModal, roundWinners,
           roundLanguage, showRoundWinnersModal, isTransmitting, txTimers, selTimers, fileReads, outbound, nextUid,
           nImports, nEvents, nPlays, lastEvent >>

uiVars == << showStartModal, showLoadModal, userName >>
gameVars == << currentWord, currentLanguage, playerCount, gameStarted, winners,
               showWinnersModal, roundWinners, roundLanguage,
               showRoundWinnersModal >>
socketVars == << readyState, socketReady >>
countVars == << nImports, nEvents, nPlays >>

NoCard == [id |-> "", words |-> <<>>, language |-> ""]
\* repeat: the step before handled a word_selected with the same word and card_ids
Ev(name) == [op |-> name, word |-> "", card_ids |-> None, language |-> "",
             repeat |-> FALSE]
NoEvent == Ev("none")

Init ==
  /\ readyState = "none"
  /\ socketReady = FALSE
  /\ showStartModal = TRUE
  /\ showLoadModal = FALSE
  /\ userName = ""
  /\ bingoCards = <<>>
  /\ selectedCardIndex = 0
  /\ currentWord = ""
  /\ currentLanguage = ""
  /\ playerCount = 0
  /\ gameStarted = FALSE
  /\ winners = None
  /\ showWinnersModal = FALSE
  /\ roundWinners = None
  /\ roundLanguage = ""
  /\ showRoundWinnersModal = FALSE
  /\ isTransmitting = FALSE
  /\ txTimers = <<>>
  /\ selTimers = <<>>
  /\ fileReads = {}
  /\ outbound = <<>>
  /\ nextUid = 1
  /\ nImports = 0
  /\ nEvents = 0
  /\ nPlays = 0
  /\ lastEvent = NoEvent

\* ------------------------------------------------------- outbound frames
RegisterFrame(name) == [type |-> "register", user |-> name, uid |-> 0, card |-> NoCard]
PlayFrame == [type |-> "play", user |-> "", uid |-> 0, card |-> NoCard]
\* uid is not part of the frame: it names the created card the frame was built from
BingoCardFrame(card) ==
  [type |-> "bingo_card", user |-> "", uid |-> card.uid,
   card |-> [id |-> card.id, words |-> card.words, language |-> card.language]]

IsOpen == readyState = "open"

\* window.location.reload() has been called (by onclose or handleDisconnect):
\* the page takes no more user input, while callbacks already scheduled may
\* still run before the document is unloaded
Reloading == readyState \in {"closing", "closed"}

\* sendBingoCard without its readyState check
SendBingoCardUnchecked(card) == << BingoCardFrame(card) >>

\* sendBingoCard: the frames it hands to the socket (none unless OPEN)
SendBingoCard(card) == IF IsOpen THEN << BingoCardFrame(card) >> ELSE << >>

\* ------------------------------------------------- transmission sequencer
HasUntransmitted(cards) == \E i \in 1..Len(cards) : ~cards[i].transmitted

\* prevCards.findIndex(card => !card.transmitted); 0 stands for -1
FindUntransmitted(cards) ==
  IF HasUntransmitted(cards)
  THEN CHOOSE i \in 1..Len(cards) :
         /\ ~cards[i].transmitted
         /\ \A j \in 1..(i - 1) : cards[j].transmitted
  ELSE 0

\* prevCards.map((c, idx) => idx === untransmittedIndex ? {...c, transmitted: true} : c)
MarkTransmitted(cards, idx) == [cards EXCEPT ![idx].transmitted = TRUE]

\* transmitNextCard without its setTimeout: no continuation is scheduled
TransmitNextCardNoTimer(prevCards) ==
  LET untransmittedIndex == FindUntransmitted(prevCards)
      updatedCards == MarkTransmitted(prevCards, untransmittedIndex)
  IN IF untransmittedIndex = 0
     THEN [cards |-> prevCards, sent |-> << >>, timers |-> << >>, stop |-> TRUE]
     ELSE [cards |-> updatedCards,
           sent |-> SendBingoCard(prevCards[untransmittedIndex]),
           timers |-> << >>,
           stop |-> FALSE]

\* the updater of transmitNextCard, applied to the current store:
\* the new store, the frames sent, the timers scheduled (each holds what the
\* callback reads of its snapshot updatedCards: whether a card of it is
\* untransmitted) and whether setIsTransmitting(false) was called
TransmitNextCard(prevCards) ==
  LET untransmittedIndex == FindUntransmitted(prevCards)
      updatedCards == MarkTransmitted(prevCards, untransmittedIndex)
  IN IF untransmittedIndex = 0
     THEN [cards |-> prevCards, sent |-> << >>, timers |-> << >>, stop |-> TRUE]
     ELSE [cards |-> updatedCards,
           sent |-> SendBingoCard(prevCards[untransmittedIndex]),
           timers |-> << [hasMoreUntransmitted |-> HasUntransmitted(updatedCards)] >>,
           stop |-> FALSE]

\* the transmission effect without the !isTransmitting test
StartsLoopReentrant(cards) ==
  /\ Len(cards) # Len(bingoCards)
  /\ Len(cards) # 0
  /\ HasUntransmitted(cards)

\* the transmission effect (deps [bingoCards.length]) of the render that
\* follows setBingoCards(cards): whether it starts the loop
StartsLoop(cards) ==
  /\ Len(cards) # Len(bingoCards)
  /\ Len(cards) # 0
  /\ HasUntransmitted(cards)
  /\ ~isTransmitting

\* setBingoCards(cards) by a handler, the render and the transmission effect
SetBingoCards(cards) ==
  LET step == TransmitNextCard(cards)
  IN IF StartsLoop(cards)
     THEN /\ bingoCards' = step.cards
          /\ isTransmitting' = ~step.stop
          /\ txTimers' = txTimers \o step.timers
          /\ outbound' = outbound \o step.sent
     ELSE /\ bingoCards' = cards
          /\ UNCHANGED << isTransmitting, txTimers, outbound >>

\* ---------------------------------------------------------------- marking
Includes(seq, x) == \E i \in 1..Len(seq) : seq[i] = x

\* the map callback without the card.words.includes(data.word) test
MarkCardAnyWord(card, word, card_ids) ==
  IF card_ids.some /\ Includes(card_ids.val, card.id)
  THEN IF ~Includes(card.markedWords, word)
       THEN [card EXCEPT !.markedWords = Append(card.markedWords, word)]
       ELSE card
  ELSE card

\* the map callback without the !markedWords.includes(data.word) test
MarkCardAgain(card, word, card_ids) ==
  IF card_ids.some /\ Includes(card_ids.val, card.id) /\ Includes(card.words, word)
  THEN [card EXCEPT !.markedWords = Append(card.markedWords, word)]
  ELSE card

\* the map callback without the data.card_ids.includes(card.id) test
MarkCardAnyCard(card, word, card_ids) ==
  IF Includes(card.words, word)
  THEN IF ~Includes(card.markedWords, word)
       THEN [card EXCEPT !.markedWords = Append(card.markedWords, word)]
       ELSE card
  ELSE card

\* the map callback of word_selected, for one card
MarkCard(card, word, card_ids) ==
  IF card_ids.some /\ Includes(card_ids.val, card.id) /\ Includes(card.words, word)
  THEN IF ~Includes(card.markedWords, word)
       THEN [card EXCEPT !.markedWords = Append(card.markedWords, word)]
       ELSE card
  ELSE card

MarkCards(prevCards, word, card_ids) ==
  [i \in 1..Len(prevCards) |-> MarkCard(prevCards[i], word, card_ids)]

\* -------------------------------------------------------------- selection
\* the forEach with markedCount >= maxMarked in place of markedCount > maxMarked
RECURSIVE SelectScanLast(_, _, _)
SelectScanLast(updated, language, n) ==
  IF n = 0
  THEN [maxMarked |-> 0, bestIndex |-> 0,
        maxMarkedForLanguage |-> 0, bestIndexForLanguage |-> 0]
  ELSE LET acc == SelectScanLast(updated, language, n - 1)
           card == updated[n]
           markedCount == Len(card.markedWords)
           a1 == IF markedCount >= acc.maxMarked
                 THEN [acc EXCEPT !.maxMarked = markedCount, !.bestIndex = n - 1]
                 ELSE acc
       IN IF card.language = language /\ markedCount > a1.maxMarkedForLanguage
          THEN [a1 EXCEPT !.maxMarkedForLanguage = markedCount,
                          !.bestIndexForLanguage = n - 1]
          ELSE a1

\* updated.forEach(...) of the deferred callback: the accumulator after the
\* first n cards; indices in the accumulator are 0-based as in the code
RECURSIVE SelectScan(_, _, _)
SelectScan(updated, language, n) ==
  IF n = 0
  THEN [maxMarked |-> 0, bestIndex |-> 0,
        maxMarkedForLanguage |-> 0, bestIndexForLanguage |-> 0]
  ELSE LET acc == SelectScan(updated, language, n - 1)
           card == updated[n]
           markedCount == Len(card.markedWords)
           a1 == IF markedCount > acc.maxMarked
                 THEN [acc EXCEPT !.maxMarked = markedCount, !.bestIndex = n - 1]
                 ELSE acc
       IN IF card.language = language /\ markedCount > a1.maxMarkedForLanguage
          THEN [a1 EXCEPT !.maxMarkedForLanguage = markedCount,
                          !.bestIndexForLanguage = n - 1]
          ELSE a1

\* the value passed to setSelectedCardIndex
AutoSelect(updated, language) ==
  LET acc == SelectScan(updated, language, Len(updated))
  IN IF acc.maxMarkedForLanguage > 0 THEN acc.bestIndexForLanguage ELSE acc.bestIndex

\* ---------------------------------------------------------------- parsing
\* parseTxtFile with parts.length < 1 in place of parts.length < 2 and
\* without the words.length test
RECURSIVE ParseLinesLoose(_, _)
ParseLinesLoose(lines, uid0) ==
  IF lines = << >> THEN << >>
  ELSE LET parts == Head(lines)
       IN IF Len(parts) < 1
          THEN ParseLinesLoose(Tail(lines), uid0)
          ELSE << [uid |-> uid0, id |-> parts[1], words |-> Tail(parts),
                   language |-> DetectLanguage(Len(parts) - 1),
                   transmitted |-> FALSE, markedWords |-> << >>] >>
               \o ParseLinesLoose(Tail(lines), uid0 + 1)

\* parseTxtFile over the lines of the file; uid0 names the first card made
RECURSIVE ParseLines(_, _)
ParseLines(lines, uid0) ==
  IF lines = << >> THEN << >>
  ELSE LET parts == Head(lines)
       IN IF Len(parts) < 2
          THEN ParseLines(Tail(lines), uid0)
          ELSE << [uid |-> uid0, id |-> parts[1], words |-> Tail(parts),
                   language |-> DetectLanguage(Len(parts) - 1),
                   transmitted |-> FALSE, markedWords |-> << >>] >>
               \o ParseLines(Tail(lines), uid0 + 1)

ParseTxtFile(content, uid0) ==
  ParseLines(SelectSeq(content, LAMBDA line : line # << >>), uid0)

\* words of the manual form: split('\n').map(trim).filter(word => word)
RECURSIVE ManualWords(_)
ManualWords(lines) ==
  IF lines = << >> THEN << >>
  ELSE (IF Trim(Head(lines)) = "" THEN << >> ELSE << Trim(Head(lines)) >>)
       \o ManualWords(Tail(lines))

\* ----------------------------------------------------------- registration
\* registerUser -> setupWebSocket; the render effect of lines 68-72 opens
\* the load modal when the start modal goes away over an empty store
RegisterUser(name) ==
  /\ showStartModal
  /\ IF name = ""
     THEN /\ lastEvent' = Ev("rejected_name")
          /\ UNCHANGED << uiVars, readyState >>
     ELSE /\ lastEvent' = NoEvent
          /\ userName' = name
          /\ readyState' = IF readyState = "none" THEN "connecting" ELSE readyState
          /\ showStartModal' = FALSE
          /\ showLoadModal' = IF Len(bingoCards) = 0 THEN TRUE ELSE showLoadModal
  /\ UNCHANGED << socketReady, bingoCards, selectedCardIndex, gameVars,
                  isTransmitting, txTimers, selTimers, fileReads, outbound,
                  nextUid, countVars >>

\* socket.onopen
OnOpen ==
  /\ readyState = "connecting"
  /\ readyState' = "open"
  /\ socketReady' = TRUE
  /\ outbound' = Append(outbound, RegisterFrame(userName))
  /\ lastEvent' = NoEvent
  /\ UNCHANGED << uiVars, bingoCards, selectedCardIndex, gameVars,
                  isTransmitting, txTimers, selTimers, fileReads, nextUid,
                  countVars >>

\* socket.onerror, and the close event the browser fires right after it
OnError ==
  /\ readyState \in {"connecting", "open"}
  /\ readyState' = "closed"
  /\ socketReady' = FALSE
  /\ lastEvent' = NoEvent
  /\ UNCHANGED << uiVars, bingoCards, selectedCardIndex, gameVars,
                  isTransmitting, txTimers, selTimers, fileReads, outbound,
                  nextUid, countVars >>

\* socket.onclose (the page reload it asks for is not instantaneous:
\* callbacks already scheduled may still run against the closed socket)
OnClose ==
  /\ readyState \in {"connecting", "open", "closing"}
  /\ readyState' = "closed"
  /\ socketReady' = FALSE
  /\ lastEvent' = NoEvent
  /\ UNCHANGED << uiVars, bingoCards, selectedCardIndex, gameVars,
                  isTransmitting, txTimers, selTimers, fileReads, outbound,
                  nextUid, countVars >>

\* handleDisconnect: socket.close() moves an open socket to CLOSING
HandleDisconnect ==
  /\ ~showStartModal
  /\ readyState \in {"connecting", "open"}
  /\ readyState' = "closing"
  /\ lastEvent' = NoEvent
  /\ UNCHANGED << socketReady, uiVars, bingoCards, selectedCardIndex, gameVars,
                  isTransmitting, txTimers, selTimers, fileReads, outbound,
                  nextUid, countVars >>

\* ------------------------------------------------------------ card loading
\* handleManualSubmit testing !manualCardId in place of !manualCardId.trim()
HandleManualSubmitUntrimmed(idText, inputLines) ==
  LET words == ManualWords(inputLines)
      card == [uid |-> nextUid, id |-> Trim(idText), words |-> words,
               language |-> DetectLanguage(Len(words)),
               transmitted |-> FALSE, markedWords |-> << >>]
  IN /\ ~Reloading
     /\ showLoadModal
     /\ nextUid <= MaxCards
     /\ IF idText = "" \/ words = << >>
        THEN /\ lastEvent' = Ev("rejected_card")
             /\ UNCHANGED << showLoadModal, bingoCards, isTransmitting,
                             txTimers, outbound, nextUid >>
        ELSE /\ lastEvent' = NoEvent
             /\ SetBingoCards(Append(bingoCards, card))
             /\ showLoadModal' = FALSE
             /\ nextUid' = nextUid + 1
     /\ UNCHANGED << socketVars, showStartModal, userName, selectedCardIndex,
                     gameVars, selTimers, fileReads, countVars >>

\* the Add Card button of the load modal; the controlled form fields
\* manualCardId and manualInput are its inputs, as typed before the click
\* (a rejected input leaves a trace in lastEvent only, which the code does
\* not have)
HandleManualSubmit(idText, inputLines) ==
  LET words == ManualWords(inputLines)
      card == [uid |-> nextUid, id |-> Trim(idText), words |-> words,
               language |-> DetectLanguage(Len(words)),
               transmitted |-> FALSE, markedWords |-> << >>]
  IN /\ ~Reloading
     /\ showLoadModal
     /\ nextUid <= MaxCards
     /\ IF Trim(idText) = "" \/ words = << >>
        THEN /\ lastEvent' = Ev("rejected_card")
             /\ UNCHANGED << showLoadModal, bingoCards, isTransmitting,
                             txTimers, outbound, nextUid >>
        ELSE /\ lastEvent' = NoEvent
             /\ SetBingoCards(Append(bingoCards, card))
             /\ showLoadModal' = FALSE
             /\ nextUid' = nextUid + 1
     /\ UNCHANGED << socketVars, showStartModal, userName, selectedCardIndex,
                     gameVars, selTimers, fileReads, countVars >>

\* cards the pending reads will create
RECURSIVE PendingCards(_)
PendingCards(reads) ==
  IF reads = {} THEN 0
  ELSE LET r == CHOOSE x \in reads : TRUE
       IN Len(ParseTxtFile(r.content, 0)) + PendingCards(reads \ {r})

\* handleFileUpload: starts the read; its onload closure holds the
\* bingoCards of the render the handler belongs to
HandleFileUpload(content) ==
  /\ ~Reloading
  /\ showLoadModal
  /\ nImports < MaxImports
  /\ (nextUid - 1) + PendingCards(fileReads) + Len(ParseTxtFile(content, 0)) <= MaxCards
  /\ fileReads' = fileReads \cup
                    {[n |-> nImports + 1, bingoCards |-> bingoCards, content |-> content]}
  /\ nImports' = nImports + 1
  /\ lastEvent' = NoEvent
  /\ UNCHANGED << socketVars, uiVars, bingoCards, selectedCardIndex, gameVars,
                  isTransmitting, txTimers, selTimers, outbound, nextUid,
                  nEvents, nPlays >>

\* the store reader.onload writes: the closure's bingoCards plus the new cards
FileUploadStore(read, newCards) == read.bingoCards \o newCards

\* reader.onload
FileLoad(read) ==
  LET newCards == ParseTxtFile(read.content, nextUid)
  IN /\ read \in fileReads
     /\ fileReads' = fileReads \ {read}
     /\ lastEvent' = NoEvent
     /\ IF Len(newCards) > 0
        THEN /\ SetBingoCards(FileUploadStore(read, newCards))
             /\ showLoadModal' = FALSE
             /\ nextUid' = nextUid + Len(newCards)
        ELSE UNCHANGED << bingoCards, isTransmitting, txTimers, outbound,
                          showLoadModal, nextUid >>
     /\ UNCHANGED << socketVars, showStartModal, userName,
                     selectedCardIndex, gameVars, selTimers,
                     countVars >>

\* the 100 ms callback of transmitNextCard: it reads the snapshot it closed
\* over, and on "more" runs the updater against the current store
TxTimerFire ==
  /\ txTimers # << >>
  /\ lastEvent' = NoEvent
  /\ LET step == TransmitNextCard(bingoCards)
     IN IF Head(txTimers).hasMoreUntransmitted
        THEN /\ bingoCards' = step.cards
             /\ outbound' = outbound \o step.sent
             /\ txTimers' = Tail(txTimers) \o step.timers
             /\ isTransmitting' = IF step.stop THEN FALSE ELSE isTransmitting
        ELSE /\ isTransmitting' = FALSE
             /\ txTimers' = Tail(txTimers)
             /\ UNCHANGED << bingoCards, outbound >>
  /\ UNCHANGED << socketVars, uiVars, selectedCardIndex, gameVars, selTimers,
                  fileReads, nextUid, countVars >>

\* ------------------------------------------------------------ user actions
\* the PLAY button rendered whenever cards are loaded, whatever their flags
PlayShownUncounted ==
  /\ ~showStartModal
  /\ Len(bingoCards) > 0
  /\ ~gameStarted

\* the PLAY button is rendered (lines 456-466)
PlayShown ==
  /\ ~showStartModal
  /\ Len(bingoCards) > 0
  /\ ~gameStarted
  /\ ~(Len(SelectSeq(bingoCards, LAMBDA c : c.transmitted)) < Len(bingoCards))

HandlePlay ==
  /\ ~Reloading
  /\ PlayShown
  /\ nPlays < MaxPlays
  /\ nPlays' = nPlays + 1
  /\ outbound' = IF IsOpen THEN Append(outbound, PlayFrame) ELSE outbound
  /\ lastEvent' = NoEvent
  /\ UNCHANGED << socketVars, uiVars, bingoCards, selectedCardIndex, gameVars,
                  isTransmitting, txTimers, selTimers, fileReads, nextUid,
                  nImports, nEvents >>

\* click on the index-th entry of the card list
SelectCard(index) ==
  /\ ~Reloading
  /\ ~showStartModal
  /\ index \in 0..(Len(bingoCards) - 1)
  /\ selectedCardIndex' = index
  /\ lastEvent' = NoEvent
  /\ UNCHANGED << socketVars, uiVars, bingoCards, gameVars, isTransmitting,
                  txTimers, selTimers, fileReads, outbound, nextUid, countVars >>

\* "+ Add Card"
OpenLoadModal ==
  /\ ~Reloading
  /\ ~showStartModal
  /\ ~gameStarted
  /\ ~showLoadModal
  /\ showLoadModal' = TRUE
  /\ lastEvent' = NoEvent
  /\ UNCHANGED << socketVars, showStartModal, userName, bingoCards, selectedCardIndex, gameVars,
                  isTransmitting, txTimers, selTimers, fileReads, outbound,
                  nextUid, countVars >>

\* the close buttons of the load modal
CloseLoadModal ==
  /\ ~Reloading
  /\ showLoadModal
  /\ showLoadModal' = FALSE
  /\ lastEvent' = NoEvent
  /\ UNCHANGED << socketVars, showStartModal, userName, bingoCards, selectedCardIndex, gameVars,
                  isTransmitting, txTimers, selTimers, fileReads, outbound,
                  nextUid, countVars >>

\* the Continue button of the round winners modal
ContinueRound ==
  /\ ~Reloading
  /\ showRoundWinnersModal
  /\ roundWinners.some
  /\ showRoundWinnersModal' = FALSE
  /\ roundWinners' = None
  /\ roundLanguage' = ""
  /\ lastEvent' = NoEvent
  /\ UNCHANGED << socketVars, uiVars, bingoCards, selectedCardIndex,
                  currentWord, currentLanguage, playerCount, gameStarted,
                  winners, showWinnersModal, isTransmitting, txTimers,
                  selTimers, fileReads, outbound, nextUid, countVars >>

\* ---------------------------------------------------------- inbound events
\* socket.onmessage delivers a frame while the socket is open
Delivers ==
  /\ IsOpen
  /\ nEvents < MaxEvents
  /\ nEvents' = nEvents + 1

\* JSON.parse throws: caught and logged
OnMalformed ==
  /\ Delivers
  /\ lastEvent' = Ev("malformed")
  /\ UNCHANGED << socketVars, uiVars, bingoCards, selectedCardIndex, gameVars,
                  isTransmitting, txTimers, selTimers, fileReads, outbound,
                  nextUid, nImports, nPlays >>

\* a switch whose default falls into the round_end case
OnUnknownTypeFallsThrough ==
  /\ Delivers
  /\ currentWord' = ""
  /\ currentLanguage' = ""
  /\ lastEvent' = Ev("unknown_type")
  /\ UNCHANGED << socketVars, uiVars, bingoCards, selectedCardIndex,
                  playerCount, gameStarted, winners, showWinnersModal,
                  roundWinners, roundLanguage, showRoundWinnersModal,
                  isTransmitting, txTimers, selTimers, fileReads, outbound,
                  nextUid, nImports, nPlays >>

\* a type the switch does not know
OnUnknownType ==
  /\ Delivers
  /\ lastEvent' = Ev("unknown_type")
  /\ UNCHANGED << socketVars, uiVars, bingoCards, selectedCardIndex, gameVars,
                  isTransmitting, txTimers, selTimers, fileReads, outbound,
                  nextUid, nImports, nPlays >>

OnPlayerCount(count) ==
  /\ Delivers
  /\ playerCount' = count
  /\ lastEvent' = Ev("player_count")
  /\ UNCHANGED << socketVars, uiVars, bingoCards, selectedCardIndex,
                  currentWord, currentLanguage, gameStarted, winners,
                  showWinnersModal, roundWinners, roundLanguage,
                  showRoundWinnersModal, isTransmitting, txTimers, selTimers,
                  fileReads, outbound, nextUid, nImports, nPlays >>

OnGameStarted ==
  /\ Delivers
  /\ gameStarted' = TRUE
  /\ lastEvent' = Ev("game_started")
  /\ UNCHANGED << socketVars, uiVars, bingoCards, selectedCardIndex,
                  currentWord, currentLanguage, playerCount, winners,
                  showWinnersModal, roundWinners, roundLanguage,
                  showRoundWinnersModal, isTransmitting, txTimers, selTimers,
                  fileReads, outbound, nextUid, nImports, nPlays >>

\* round_start that also calls setCurrentWord('')
OnRoundStartClearsWord(language) ==
  /\ Delivers
  /\ currentLanguage' = language
  /\ currentWord' = ""
  /\ lastEvent' = [Ev("round_start") EXCEPT !.language = language]
  /\ UNCHANGED << socketVars, uiVars, bingoCards, selectedCardIndex,
                  playerCount, gameStarted, winners,
                  showWinnersModal, roundWinners, roundLanguage,
                  showRoundWinnersModal, isTransmitting, txTimers, selTimers,
                  fileReads, outbound, nextUid, nImports, nPlays >>

OnRoundStart(language) ==
  /\ Delivers
  /\ currentLanguage' = language
  /\ lastEvent' = [Ev("round_start") EXCEPT !.language = language]
  /\ UNCHANGED << socketVars, uiVars, bingoCards, selectedCardIndex,
                  currentWord, playerCount, gameStarted, winners,
                  showWinnersModal, roundWinners, roundLanguage,
                  showRoundWinnersModal, isTransmitting, txTimers, selTimers,
                  fileReads, outbound, nextUid, nImports, nPlays >>

\* word_selected with a deferred callback that closes over prevCards, the
\* store before the marks, in place of updated
OnWordSelectedPreMark(word, card_ids, language) ==
  LET updated == MarkCards(bingoCards, word, card_ids)
  IN /\ Delivers
     /\ currentWord' = word
     /\ bingoCards' = updated
     /\ selTimers' = Append(selTimers, [updated |-> bingoCards, language |-> language,
                                        round |-> currentLanguage])
     /\ lastEvent' = [op |-> "word_selected", word |-> word, card_ids |-> card_ids,
                      language |-> language,
                      repeat |-> /\ lastEvent.op = "word_selected"
                                 /\ lastEvent.word = word
                                 /\ lastEvent.card_ids = card_ids]
     /\ UNCHANGED << socketVars, uiVars, selectedCardIndex, currentLanguage,
                     playerCount, gameStarted, winners, showWinnersModal,
                     roundWinners, roundLanguage, showRoundWinnersModal,
                     isTransmitting, txTimers, fileReads, outbound, nextUid,
                     nImports, nPlays >>

\* word_selected: marks the cards and defers the selection; the deferred
\* callback closes over the marked snapshot and over data.language
\* (round is not read by the code: it records the round language in force
\* when the event was handled)
OnWordSelected(word, card_ids, language) ==
  LET updated == MarkCards(bingoCards, word, card_ids)
  IN /\ Delivers
     /\ currentWord' = word
     /\ bingoCards' = updated
     /\ selTimers' = Append(selTimers, [updated |-> updated, language |-> language,
                                        round |-> currentLanguage])
     /\ lastEvent' = [op |-> "word_selected", word |-> word, card_ids |-> card_ids,
                      language |-> language,
                      repeat |-> /\ lastEvent.op = "word_selected"
                                 /\ lastEvent.word = word
                                 /\ lastEvent.card_ids = card_ids]
     /\ UNCHANGED << socketVars, uiVars, selectedCardIndex, currentLanguage,
                     playerCount, gameStarted, winners, showWinnersModal,
                     roundWinners, roundLanguage, showRoundWinnersModal,
                     isTransmitting, txTimers, fileReads, outbound, nextUid,
                     nImports, nPlays >>

\* the setTimeout(..., 0) callback of word_selected
SelTimerFire ==
  /\ selTimers # << >>
  /\ selectedCardIndex' = AutoSelect(Head(selTimers).updated, Head(selTimers).language)
  /\ selTimers' = Tail(selTimers)
  /\ lastEvent' = NoEvent
  /\ UNCHANGED << socketVars, uiVars, bingoCards, gameVars, isTransmitting,
                  txTimers, fileReads, outbound, nextUid, countVars >>

\* round_end without the data.winners.length > 0 test
OnRoundEndAnyWinners(eventWinners, language) ==
  /\ Delivers
  /\ currentWord' = ""
  /\ IF eventWinners.some
     THEN /\ roundWinners' = eventWinners
          /\ roundLanguage' = language
          /\ showRoundWinnersModal' = TRUE
     ELSE UNCHANGED << roundWinners, roundLanguage, showRoundWinnersModal >>
  /\ currentLanguage' = ""
  /\ lastEvent' = [Ev("round_end") EXCEPT !.language = language]
  /\ UNCHANGED << socketVars, uiVars, bingoCards, selectedCardIndex,
                  playerCount, gameStarted, winners, showWinnersModal,
                  isTransmitting, txTimers, selTimers, fileReads, outbound,
                  nextUid, nImports, nPlays >>

OnRoundEnd(eventWinners, language) ==
  /\ Delivers
  /\ currentWord' = ""
  /\ IF eventWinners.some /\ Len(eventWinners.val) > 0
     THEN /\ roundWinners' = eventWinners
          /\ roundLanguage' = language
          /\ showRoundWinnersModal' = TRUE
     ELSE UNCHANGED << roundWinners, roundLanguage, showRoundWinnersModal >>
  /\ currentLanguage' = ""
  /\ lastEvent' = [Ev("round_end") EXCEPT !.language = language]
  /\ UNCHANGED << socketVars, uiVars, bingoCards, selectedCardIndex,
                  playerCount, gameStarted, winners, showWinnersModal,
                  isTransmitting, txTimers, selTimers, fileReads, outbound,
                  nextUid, nImports, nPlays >>

\* game_end that also calls setGameStarted(false)
OnGameEndResetsGame(eventWinners) ==
  /\ Delivers
  /\ winners' = eventWinners
  /\ showWinnersModal' = TRUE
  /\ gameStarted' = FALSE
  /\ lastEvent' = Ev("game_end")
  /\ UNCHANGED << socketVars, uiVars, bingoCards, selectedCardIndex,
                  currentWord, currentLanguage, playerCount,
                  roundWinners, roundLanguage, showRoundWinnersModal,
                  isTransmitting, txTimers, selTimers, fileReads, outbound,
                  nextUid, nImports, nPlays >>

OnGameEnd(eventWinners) ==
  /\ Delivers
  /\ winners' = eventWinners
  /\ showWinnersModal' = TRUE
  /\ lastEvent' = Ev("game_end")
  /\ UNCHANGED << socketVars, uiVars, bingoCards, selectedCardIndex,
                  currentWord, currentLanguage, playerCount, gameStarted,
                  roundWinners, roundLanguage, showRoundWinnersModal,
                  isTransmitting, txTimers, selTimers, fileReads, outbound,
                  nextUid, nImports, nPlays >>

\* ------------------------------------------------------------ specification
\* the channel and the page
SessionStep ==
  \/ \E name \in UserNames : RegisterUser(name)
  \/ OnOpen
  \/ OnError
  \/ OnClose
  \/ HandleDisconnect

\* loading cards and the load modal
LoadStep ==
  \/ \E e \in ManualEntries : HandleManualSubmit(e[1], e[2])
  \/ \E content \in FileContents : HandleFileUpload(content)
  \/ \E read \in fileReads : FileLoad(read)
  \/ OpenLoadModal
  \/ CloseLoadModal

\* inbound messages that write the round/game state only
GameStep ==
  \/ OnMalformed
  \/ OnUnknownType
  \/ \E count \in PlayerCounts : OnPlayerCount(count)
  \/ \E language \in RoundLanguages : OnRoundStart(language)
  \/ \E eventWinners \in WinnerLists, language \in RoundLanguages :
       OnRoundEnd(eventWinners, language)
  \/ \E eventWinners \in WinnerLists : OnGameEnd(eventWinners)
  \/ ContinueRound

\* marking and selection
MarkStep ==
  \/ \E word \in CalledWords, card_ids \in CardIdLists, language \in EventLanguages :
       OnWordSelected(word, card_ids, language)
  \/ SelTimerFire
  \/ \E index \in 0..(MaxCards - 1) : SelectCard(index)

Next ==
  \/ SessionStep
  \/ LoadStep
  \/ TxTimerFire
  \/ HandlePlay
  \/ OnGameStarted
  \/ GameStep
  \/ MarkStep

\* the whole client
Spec == Init /\ [][Next]_vars

\* the client without the inbound messages, which leave the Card Store's
\* transmitted flags, the sequencer and the outbound stream alone
NextTx ==
  \/ SessionStep
  \/ LoadStep
  \/ TxTimerFire
  \/ HandlePlay

SpecTx == Init /\ [][NextTx]_vars

\* the client without the inbound messages, with weak fairness for the
\* callbacks the browser is bound to run: a timer that is due, a file read
\* that has completed
FairTx ==
  /\ SpecTx
  /\ WF_vars(TxTimerFire)
  /\ WF_vars(\E read \in fileReads : FileLoad(read))

\* the client as far as marking and the deferred selection go: one visit to
\* the load modal, at most MaxImportsEv imports, at most MaxEventsEv inbound
\* messages, no PLAY button, no channel failure, no click on the card list,
\* and of the round/game messages only round_start
HandleFileUploadEv(content) ==
  /\ nImports < MaxImportsEv
  /\ HandleFileUpload(content)

OnRoundStartEv(language) ==
  /\ nEvents < MaxEventsEv
  /\ OnRoundStart(language)

OnWordSelectedEv(word, card_ids, language) ==
  /\ nEvents < MaxEventsEv
  /\ OnWordSelected(word, card_ids, language)

NextEv ==
  \/ \E name \in UserNames : RegisterUser(name)
  \/ OnOpen
  \/ \E e \in ManualEntries : HandleManualSubmit(e[1], e[2])
  \/ \E content \in FileContents : HandleFileUploadEv(content)
  \/ \E read \in fileReads : FileLoad(read)
  \/ TxTimerFire
  \/ \E language \in RoundLanguages : OnRoundStartEv(language)
  \/ \E word \in CalledWords, card_ids \in CardIdLists, language \in EventLanguages :
       OnWordSelectedEv(word, card_ids, language)
  \/ SelTimerFire

SpecEv == Init /\ [][NextEv]_vars

\* the deferred selection over stores of every shape: the session starts
\* from a registered client on an open channel whose cards (one, two or
\* three of them, of three languages, with zero to two marks) have all been
\* sent, and receives round_start and word_selected messages
SelCards ==
  { [id |-> "c1", words |-> DutchWords, language |-> DetectLanguage(Len(DutchWords)),
     markedWords |-> m] : m \in { << >>, <<"SOL">>, <<"SOL", "LUNA">> } }
  \cup
  { [id |-> "c2", words |-> EnglishWords, language |-> DetectLanguage(Len(EnglishWords)),
     markedWords |-> m] : m \in { << >>, <<"SOL">> } }
  \cup
  { [id |-> "c3", words |-> ShortWords, language |-> DetectLanguage(Len(ShortWords)),
     markedWords |-> m] : m \in { << >>, <<"LUNA">> } }

\* the card c as the uid-th card created, already transmitted
Loaded(c, uid) ==
  [uid |-> uid, id |-> c.id, words |-> c.words, language |-> c.language,
   transmitted |-> TRUE, markedWords |-> c.markedWords]

SelStores ==
  { << >> }
  \cup { << Loaded(a, 1) >> : a \in SelCards }
  \cup { << Loaded(a, 1), Loaded(b, 2) >> : a \in SelCards, b \in SelCards }
  \cup { << Loaded(a, 1), Loaded(b, 2), Loaded(c, 3) >> :
           a \in SelCards, b \in SelCards, c \in SelCards }

SelInit ==
  /\ readyState = "open"
  /\ socketReady = TRUE
  /\ showStartModal = FALSE
  /\ bingoCards \in SelStores
  /\ showLoadModal = (bingoCards = << >>)
  /\ userName = "ana"
  /\ selectedCardIndex = 0
  /\ currentWord = ""
  /\ currentLanguage = ""
  /\ playerCount = 0
  /\ gameStarted = FALSE
  /\ winners = None
  /\ showWinnersModal = FALSE
  /\ roundWinners = None
  /\ roundLanguage = ""
  /\ showRoundWinnersModal = FALSE
  /\ isTransmitting = FALSE
  /\ txTimers = << >>
  /\ selTimers = << >>
  /\ fileReads = {}
  /\ outbound = << RegisterFrame("ana") >>
                 \o [i \in 1..Len(bingoCards) |-> BingoCardFrame(bingoCards[i])]
  /\ nextUid = Len(bingoCards) + 1
  /\ nImports = 0
  /\ nEvents = 0
  /\ nPlays = 0
  /\ lastEvent = NoEvent

NextSel ==
  \/ \E language \in RoundLanguages : OnRoundStart(language)
  \/ \E word \in CalledWords, card_ids \in CardIdLists, language \in EventLanguages :
       OnWordSelected(word, card_ids, language)
  \/ SelTimerFire

SpecSel == SelInit /\ [][NextSel]_vars

\* the client as far as the inbound messages go: one visit to the load
\* modal, where a card is entered by hand, no channel failure, no click on
\* the card list, and every kind of message arrives
NextGame ==
  \/ \E name \in UserNames : RegisterUser(name)
  \/ OnOpen
  \/ \E e \in ManualEntries : HandleManualSubmit(e[1], e[2])
  \/ TxTimerFire
  \/ OnGameStarted
  \/ GameStep
  \/ \E word \in CalledWords, card_ids \in CardIdLists, language \in EventLanguages :
       OnWordSelected(word, card_ids, language)
  \/ SelTimerFire

SpecGame == Init /\ [][NextGame]_vars

\* the client of SpecGame with the PLAY button, the close buttons of the
\* load modal, the disconnect button and the failures of the channel
NextSession ==
  \/ NextGame
  \/ HandlePlay
  \/ CloseLoadModal
  \/ HandleDisconnect
  \/ OnError
  \/ OnClose

SpecSession == Init /\ [][NextSession]_vars

\* the client as far as the selected card goes: one visit to the load
\* modal, where files are picked, clicks on the card list, word_selected
\* messages (at most MaxEventsEv) and no channel failure
NextPick ==
  \/ \E name \in UserNames : RegisterUser(name)
  \/ OnOpen
  \/ \E content \in FileContents : HandleFileUpload(content)
  \/ \E read \in fileReads : FileLoad(read)
  \/ TxTimerFire
  \/ \E index \in 0..(MaxCards - 1) : SelectCard(index)
  \/ \E word \in CalledWords, card_ids \in CardIdLists, language \in EventLanguages :
       OnWordSelectedEv(word, card_ids, language)
  \/ SelTimerFire

SpecPick == Init /\ [][NextPick]_vars

\* the client as far as the send loop goes: cards from the manual form over
\* several visits to the load modal and from at most MaxImportsEv files, a
\* channel that opens and may close, and weak fairness for the callbacks
\* the browser is bound to run
NextLoop ==
  \/ \E name \in UserNames : RegisterUser(name)
  \/ OnOpen
  \/ OnClose
  \/ \E e \in ManualEntries : HandleManualSubmit(e[1], e[2])
  \/ \E content \in FileContents : HandleFileUploadEv(content)
  \/ \E read \in fileReads : FileLoad(read)
  \/ OpenLoadModal
  \/ TxTimerFire

FairLoop ==
  /\ Init /\ [][NextLoop]_vars
  /\ WF_vars(TxTimerFire)
  /\ WF_vars(\E read \in fileReads : FileLoad(read))

\* the file import over files of every shape: the session starts from a
\* registered client on an open channel with an empty store, the load modal
\* open and the read of a three-line file in progress; each line is blank
\* or holds an id followed by 0 to MaxWords words
Token(i) == "w" \o ToString(i)
ParseIds == <<"c1", "c2", "c3">>
ParseLineKinds(k) ==
  { << >> } \cup { << ParseIds[k] >> \o [i \in 1..n |-> Token(i)] : n \in 0..MaxWords }
ParseFiles ==
  { << a, b, c >> : a \in ParseLineKinds(1), b \in ParseLineKinds(2), c \in ParseLineKinds(3) }

ParseInit ==
  /\ readyState = "open"
  /\ socketReady = TRUE
  /\ showStartModal = FALSE
  /\ showLoadModal = TRUE
  /\ userName = "ana"
  /\ bingoCards = << >>
  /\ selectedCardIndex = 0
  /\ currentWord = ""
  /\ currentLanguage = ""
  /\ playerCount = 0
  /\ gameStarted = FALSE
  /\ winners = None
  /\ showWinnersModal = FALSE
  /\ roundWinners = None
  /\ roundLanguage = ""
  /\ showRoundWinnersModal = FALSE
  /\ isTransmitting = FALSE
  /\ txTimers = << >>
  /\ selTimers = << >>
  /\ \E content \in ParseFiles :
       fileReads = { [n |-> 1, bingoCards |-> << >>, content |-> content] }
  /\ outbound = << RegisterFrame("ana") >>
  /\ nextUid = 1
  /\ nImports = 1
  /\ nEvents = 0
  /\ nPlays = 0
  /\ lastEvent = NoEvent

NextParse ==
  \/ \E read \in fileReads : FileLoad(read)
  \/ TxTimerFire

SpecParse == ParseInit /\ [][NextParse]_vars

\* ------------------------------------------------------- outbound history
BingoCardFrames == SelectSeq(outbound, LAMBDA f : f.type = "bingo_card")
SentUid(uid) == \E k \in 1..Len(outbound) :
                  outbound[k].type = "bingo_card" /\ outbound[k].uid = uid

\* C1: no card is sent more than once: no two bingo_card frames of the
\* outbound stream were built from the same created card.
C1_NoCardSentTwice ==
  \A i, j \in 1..Len(BingoCardFrames) :
    i < j => BingoCardFrames[i].uid # BingoCardFrames[j].uid

\* the created card uid is in the store and not yet marked transmitted
Pending(uid) == \E i \in 1..Len(bingoCards) :
                  bingoCards[i].uid = uid /\ ~bingoCards[i].transmitted

\* C2: while the channel stays open, every card appended to the store is
\* eventually sent: a card that waits untransmitted in the store of an open
\* channel is sent later on, unless the channel leaves the open state.
C2_EveryCardEventuallySent ==
  \A uid \in 1..MaxCards :
    [](Pending(uid) /\ IsOpen => <>(SentUid(uid) \/ ~IsOpen))

\* C3: the bingo_card frames follow the append order of the cards, each card
\* once: for cards appended A, B, C the sends are A, B, C.
C3_SendsInAppendOrder ==
  \A i, j \in 1..Len(BingoCardFrames) :
    i < j => BingoCardFrames[i].uid < BingoCardFrames[j].uid

\* C4: a card of the store with transmitted = true has been sent as a
\* bingo_card frame (a step of the sequencer that finds the channel not open
\* leaves its card untransmitted).
C4_TransmittedWereSent ==
  \A i \in 1..Len(bingoCards) : bingoCards[i].transmitted => SentUid(bingoCards[i].uid)

\* C5: register is sent exactly once, when the channel opens, and is the
\* first frame: the frame at position k is a register frame exactly when
\* k = 1, and an open channel has sent it.
C5_RegisterOnceAndFirst ==
  /\ \A k \in 1..Len(outbound) : (outbound[k].type = "register") <=> (k = 1)
  /\ IsOpen => Len(outbound) >= 1

C5_Witness ==
  /\ Len(outbound) >= 3
  /\ outbound[1].type = "register"
  /\ \E k \in 2..Len(outbound) : outbound[k].type = "bingo_card"
  /\ \E k \in 2..Len(outbound) : outbound[k].type = "play"

\* C6: a play frame is sent only from a state whose store is non-empty and
\* holds transmitted cards only.
C6_PlayOnlyWhenAllTransmitted ==
  [][ (Len(outbound') = Len(outbound) + 1 /\ outbound'[Len(outbound')].type = "play")
      => (Len(bingoCards) > 0 /\ \A i \in 1..Len(bingoCards) : bingoCards[i].transmitted)
    ]_vars

C6_Witness ==
  /\ outbound # << >>
  /\ outbound[Len(outbound)].type = "play"
  /\ Len(bingoCards) >= 2
  /\ \A i \in 1..Len(bingoCards) : bingoCards[i].transmitted

\* ------------------------------------------------------------------ marking
MarkedWordsOf(cards) == [i \in 1..Len(cards) |-> cards[i].markedWords]

\* C7: for every card of the store, markedWords is a subset of the card's
\* words and holds no word twice.
C7_MarkedSubsetOfWords ==
  \A i \in 1..Len(bingoCards) :
    LET card == bingoCards[i]
    IN /\ \A k \in 1..Len(card.markedWords) : Includes(card.words, card.markedWords[k])
       /\ \A k, l \in 1..Len(card.markedWords) :
            k < l => card.markedWords[k] # card.markedWords[l]

C7_Witness ==
  \E i \in 1..Len(bingoCards) :
    /\ Len(bingoCards[i].markedWords) = 2
    /\ Len(bingoCards[i].words) > 2

\* C8: a word_selected event handled right after a word_selected event with
\* the same word and the same card_ids leaves the markedWords of every card
\* as the first one left them.
C8_MarkingIdempotent ==
  [][ \A word \in CalledWords, card_ids \in CardIdLists, language \in EventLanguages :
        ( /\ lastEvent.op = "word_selected"
          /\ lastEvent.word = word
          /\ lastEvent.card_ids = card_ids
          /\ OnWordSelected(word, card_ids, language) )
        => MarkedWordsOf(bingoCards') = MarkedWordsOf(bingoCards)
    ]_vars

\* the second of two equal events has been handled, and the card it names
\* holds the word once
C8_Witness ==
  /\ lastEvent.op = "word_selected"
  /\ lastEvent.repeat
  /\ \E i \in 1..Len(bingoCards) :
       /\ lastEvent.card_ids.some
       /\ Includes(lastEvent.card_ids.val, bingoCards[i].id)
       /\ bingoCards[i].markedWords = << lastEvent.word >>

\* C9: a word_selected event changes a card only if the card's id is in
\* card_ids and the called word is in the card's words; it adds and removes
\* no card.
C9_MarkingFrame ==
  [][ \A word \in CalledWords, card_ids \in CardIdLists, language \in EventLanguages :
        OnWordSelected(word, card_ids, language)
        => /\ Len(bingoCards') = Len(bingoCards)
           /\ \A i \in 1..Len(bingoCards) :
                bingoCards'[i] # bingoCards[i]
                => /\ card_ids.some
                   /\ Includes(card_ids.val, bingoCards[i].id)
                   /\ Includes(bingoCards[i].words, word)
    ]_vars

\* the first event of the session has marked a listed card, has left alone
\* a card that holds the word but is not listed, and lists an id that no
\* card of the store has
C9_Witness ==
  /\ lastEvent.op = "word_selected"
  /\ nEvents = 1
  /\ lastEvent.card_ids.some
  /\ \E i \in 1..Len(bingoCards) :
       /\ Includes(lastEvent.card_ids.val, bingoCards[i].id)
       /\ bingoCards[i].markedWords = << lastEvent.word >>
  /\ \E j \in 1..Len(bingoCards) :
       /\ ~Includes(lastEvent.card_ids.val, bingoCards[j].id)
       /\ Includes(bingoCards[j].words, lastEvent.word)
       /\ bingoCards[j].markedWords = << >>
  /\ \E k \in 1..Len(lastEvent.card_ids.val) :
       \A j \in 1..Len(bingoCards) : bingoCards[j].id # lastEvent.card_ids.val[k]

\* ---------------------------------------------------------------- selection
MarkedCount(cards, i) == Len(cards[i].markedWords)

\* the lowest index (1-based) among the cards of S with the most marks
LowestMax(cards, S) ==
  CHOOSE i \in S :
    \A j \in S : \/ MarkedCount(cards, j) < MarkedCount(cards, i)
                 \/ MarkedCount(cards, j) = MarkedCount(cards, i) /\ i <= j

\* the selection the claim describes, for a round language
RoundLanguageSelection(cards, round) ==
  LET marked == {i \in 1..Len(cards) :
                   cards[i].language = round /\ MarkedCount(cards, i) > 0}
      ofRound == {i \in 1..Len(cards) : cards[i].language = round}
  IN IF marked # {} THEN LowestMax(cards, ofRound) - 1
     ELSE IF cards = << >> THEN 0
     ELSE LowestMax(cards, 1..Len(cards)) - 1

\* C10: the selection made for a word_selected event handled during a round
\* (after a round_start) prefers the language of that round: the lowest-index
\* card with the most marks among the cards of that language if one of them
\* has a mark, else the lowest-index card with the most marks overall.
C10_SelectionPrefersRoundLanguage ==
  [][ (SelTimerFire /\ Head(selTimers).round # "")
      => selectedCardIndex' =
           RoundLanguageSelection(Head(selTimers).updated, Head(selTimers).round)
    ]_vars

\* no card of cards has a marked word
NoMarks(cards) == \A i \in 1..Len(cards) : MarkedCount(cards, i) = 0

\* no card of cards in the language round has a marked word
NoMarksInLanguage(cards, round) ==
  \A i \in 1..Len(cards) : cards[i].language = round => MarkedCount(cards, i) = 0

C12_RoundEnd ==
  [][ \A eventWinners \in WinnerLists, language \in RoundLanguages :
        OnRoundEnd(eventWinners, language)
        => /\ currentWord' = ""
           /\ currentLanguage' = ""
           /\ IF eventWinners.some /\ eventWinners.val # << >>
              THEN /\ roundWinners' = eventWinners
                   /\ roundLanguage' = language
                   /\ showRoundWinnersModal'
              ELSE /\ roundWinners' = roundWinners
                   /\ roundLanguage' = roundLanguage
                   /\ showRoundWinnersModal' = showRoundWinnersModal
    ]_vars

\* the third message of a session was a round_end with winners Ana for the
\* dutch round, after a word_selected that marked a card
C12_Witness ==
  /\ lastEvent.op = "round_end"
  /\ nEvents = 3
  /\ currentWord = ""
  /\ currentLanguage = ""
  /\ roundWinners = Some(<<"Ana">>)
  /\ roundLanguage = "dutch"
  /\ showRoundWinnersModal
  /\ \E i \in 1..Len(bingoCards) : bingoCards[i].markedWords # << >>

\* C13: a message that cannot be deserialized, or whose type is not a
\* recognized one, leaves the Card Store, the round/game state and the
\* selection (the chosen index and the selections still deferred) as they
\* were, and leaves the channel open for the messages that follow.
C13_DroppedEventsAreNoOps ==
  [][ (OnMalformed \/ OnUnknownType)
      => /\ UNCHANGED << bingoCards, gameVars, selectedCardIndex, selTimers >>
         /\ UNCHANGED << socketVars, isTransmitting, txTimers, outbound >>
         /\ IsOpen'
    ]_vars

\* a message has just been dropped during a dutch round, with a word
\* called and a card marked
C13_Witness ==
  /\ lastEvent.op \in {"malformed", "unknown_type"}
  /\ currentLanguage = "dutch"
  /\ currentWord = "SOL"
  /\ \E i \in 1..Len(bingoCards) : bingoCards[i].markedWords = <<"SOL">>
  /\ IsOpen

\* ------------------------------------------------------ classifier and parse
\* the language the claim gives a word count
Classified(n) ==
  CASE n = SpanishTotal -> "spanish"
    [] n = EnglishTotal -> "english"
    [] n = PortugueseTotal -> "portuguese"
    [] n = DutchTotal -> "dutch"
    [] OTHER -> "spanish"

\* C14: the classifier returns, for every word count, the one language whose
\* total is that count (24 spanish, 14 english, 20 portuguese, 10 dutch),
\* and spanish for every other count; no two languages share a total. Stated
\* for the word count of every line of a file being read and of every card
\* of the store.
C14_Classifier ==
  /\ \A i, j \in 1..Len(LANGUAGE_CONFIGS) :
       i # j => LANGUAGE_CONFIGS[i].total # LANGUAGE_CONFIGS[j].total
  /\ \A read \in fileReads : \A k \in 1..Len(read.content) :
       Len(read.content[k]) >= 1
       => DetectLanguage(Len(read.content[k]) - 1) = Classified(Len(read.content[k]) - 1)
  /\ \A i \in 1..Len(bingoCards) :
       bingoCards[i].language = Classified(Len(bingoCards[i].words))

\* a file has been loaded into cards of 10 words (dutch), 24 words (spanish)
\* and 25 words (no descriptor: spanish)
C14_Witness ==
  /\ fileReads = {}
  /\ Len(bingoCards) = 3
  /\ Len(bingoCards[1].words) = 10 /\ bingoCards[1].language = "dutch"
  /\ Len(bingoCards[2].words) = 24 /\ bingoCards[2].language = "spanish"
  /\ Len(bingoCards[3].words) = 25 /\ bingoCards[3].language = "spanish"

\* the lines of a file that have at least 2 tokens, in line order
CardLines(content) == SelectSeq(content, LAMBDA line : Len(line) >= 2)

\* C18: parsing a file yields one card for each line of at least 2 tokens,
\* in line order, with id the first token, words the remaining tokens in
\* order, language the classification of the number of words,
\* transmitted = false and no marked word; other lines yield no card. The
\* cards reach the end of the store in that order when the read completes.
C18_FileParse ==
  [][ \A read \in fileReads :
        FileLoad(read)
        => LET lines == CardLines(read.content)
               cards == ParseTxtFile(read.content, nextUid)
               base == Len(read.bingoCards)
           IN /\ Len(cards) = Len(lines)
              /\ \A k \in 1..Len(lines) :
                   /\ cards[k].id = lines[k][1]
                   /\ cards[k].words = SubSeq(lines[k], 2, Len(lines[k]))
                   /\ cards[k].language = DetectLanguage(Len(lines[k]) - 1)
                   /\ cards[k].transmitted = FALSE
                   /\ cards[k].markedWords = << >>
              /\ Len(lines) > 0 =>
                   /\ Len(bingoCards') = base + Len(lines)
                   /\ \A k \in 1..Len(lines) :
                        /\ bingoCards'[base + k].id = lines[k][1]
                        /\ bingoCards'[base + k].words = SubSeq(lines[k], 2, Len(lines[k]))
              /\ Len(lines) = 0 => bingoCards' = bingoCards
    ]_vars

\* a three-line file whose second line gave no card has been loaded: the
\* store holds the cards of lines 1 and 3, in that order
C18_Witness ==
  /\ fileReads = {}
  /\ Len(bingoCards) = 2
  /\ bingoCards[1].id = "c1" /\ bingoCards[1].words = <<"w1", "w2", "w3">>
  /\ bingoCards[2].id = "c3" /\ bingoCards[2].words = <<"w1">>

\* ------------------------------------------------------------- the store
\* C15: a card, once appended, stays in the store at its position for the
\* rest of the session: no step shortens the store or puts another card at
\* a position that held one.
C15_CardsNeverRemoved ==
  [][ /\ Len(bingoCards') >= Len(bingoCards)
      /\ \A i \in 1..Len(bingoCards) : bingoCards'[i].uid = bingoCards[i].uid
    ]_vars

\* C16: once the channel is closing or closed it never opens again and no
\* frame is sent any more, by a click or by a continuation of the sequencer
\* scheduled before the close.
C16_NoSendAfterClose ==
  [][ Reloading => (Reloading' /\ outbound' = outbound) ]_vars

\* the first card was sent on the open channel; the channel then closed and
\* the continuation scheduled by that send has taken the second card, marked
\* it and sent nothing
C16_Witness ==
  /\ readyState = "closed"
  /\ txTimers = << >>
  /\ Len(bingoCards) = 2
  /\ SentUid(bingoCards[1].uid)
  /\ bingoCards[2].transmitted
  /\ ~SentUid(bingoCards[2].uid)
  /\ Len(BingoCardFrames) = 1

\* ------------------------------------------------------------ local input
\* the state of the client (lastEvent is the record of the model)
clientVars == << socketVars, uiVars, bingoCards, selectedCardIndex, gameVars,
                 isTransmitting, txTimers, selTimers, fileReads, outbound,
                 nextUid, countVars >>

\* C17: registering with an empty name opens no channel and changes no
\* state; a manual submission whose card id is empty or blank, or whose
\* word list is empty, appends no card and changes no state.
C17_InvalidInputRejected ==
  [][ /\ RegisterUser("") => UNCHANGED clientVars
      /\ \A e \in ManualEntries :
           ( /\ HandleManualSubmit(e[1], e[2])
             /\ (Trim(e[1]) = "" \/ ManualWords(e[2]) = << >>) )
           => UNCHANGED clientVars
    ]_vars

\* a manual submission has just been rejected over a store that holds a
\* card, on an open channel
C17_Witness ==
  /\ lastEvent.op = "rejected_card"
  /\ Len(bingoCards) >= 1
  /\ showLoadModal
  /\ IsOpen

\* ------------------------------------------------------------- the send loop
\* C19: the send loop is never re-entered while it runs: at most one
\* continuation of the sequencer is pending, a continuation is added to
\* none pending only while the is-running flag is false, and a step sends
\* at most one card.
C19_LoopNotReentered ==
  [][ /\ Len(txTimers) <= 1
      /\ Len(txTimers') <= 1
      /\ Len(txTimers') > Len(txTimers) => ~isTransmitting
      /\ Len(outbound') <= Len(outbound) + 1
    ]_vars

\* a card has been appended on the open channel while the loop waits in its
\* delay after the last card it knew of: one continuation is pending and
\* no second loop was started for the new card
C19_Witness ==
  /\ IsOpen
  /\ isTransmitting
  /\ Len(txTimers) = 1
  /\ ~Head(txTimers).hasMoreUntransmitted
  /\ HasUntransmitted(bingoCards)

\* the step keeps every card of the store as it is, the transmitted flag
\* being allowed to go from false to true, and puts cards without marks at
\* the end
AppendsOnly ==
  /\ Len(bingoCards') >= Len(bingoCards)
  /\ \A i \in 1..Len(bingoCards) :
       /\ bingoCards'[i].uid = bingoCards[i].uid
       /\ bingoCards'[i].id = bingoCards[i].id
       /\ bingoCards'[i].words = bingoCards[i].words
       /\ bingoCards'[i].language = bingoCards[i].language
       /\ bingoCards'[i].markedWords = bingoCards[i].markedWords
       /\ bingoCards[i].transmitted => bingoCards'[i].transmitted
  /\ \A i \in (Len(bingoCards) + 1)..Len(bingoCards') :
       bingoCards'[i].markedWords = << >>

\* C20: an append, by the manual form or by a file read that completes
\* after other changes of the store, adds the new cards at the end and
\* leaves the id, words, language and markedWords of every card already in
\* the store as they were; no transmitted flag goes back from true to false.
C20_AppendPreservesCards ==
  [][ /\ \A e \in ManualEntries : HandleManualSubmit(e[1], e[2]) => AppendsOnly
      /\ \A read \in fileReads : FileLoad(read) => AppendsOnly
    ]_vars

\* ------------------------------------------------------ deferred selection
\* C21: a word_selected event schedules exactly one selection, over the
\* store as the marks of that event left it; the selection runs in a later
\* step, once, over that snapshot; no other step schedules or runs one.
C21_SelectionOverPostMarkSnapshot ==
  [][ /\ \A word \in CalledWords, card_ids \in CardIdLists, language \in EventLanguages :
           OnWordSelected(word, card_ids, language)
           => /\ Len(selTimers') = Len(selTimers) + 1
              /\ SubSeq(selTimers', 1, Len(selTimers)) = selTimers
              /\ selTimers'[Len(selTimers')].updated = MarkCards(bingoCards, word, card_ids)
              /\ selTimers'[Len(selTimers')].updated = bingoCards'
              /\ selectedCardIndex' = selectedCardIndex
      /\ SelTimerFire
           => /\ selTimers' = Tail(selTimers)
              /\ selectedCardIndex' =
                   AutoSelect(Head(selTimers).updated, Head(selTimers).language)
      /\ selTimers' # selTimers
           => \/ SelTimerFire
              \/ \E word \in CalledWords, card_ids \in CardIdLists, language \in EventLanguages :
                   OnWordSelected(word, card_ids, language)
    ]_vars

\* the one event of the session marked the second card of an unmarked store
\* and its selection has run: it chose the second card
C21_Witness ==
  /\ nEvents = 1
  /\ selTimers = << >>
  /\ Len(bingoCards) = 2
  /\ bingoCards[1].markedWords = << >>
  /\ bingoCards[2].markedWords # << >>
  /\ selectedCardIndex = 1

\* ---------------------------------------------------------- round and game
\* C22: a round_start event sets currentLanguage to the language of the
\* event and leaves currentWord, the store, playerCount, gameStarted and
\* the winners notifications as they were.
C22_RoundStartFrame ==
  [][ \A language \in RoundLanguages :
        OnRoundStart(language)
        => /\ currentLanguage' = language
           /\ UNCHANGED << currentWord, bingoCards, playerCount, gameStarted,
                           winners, showWinnersModal, roundWinners, roundLanguage,
                           showRoundWinnersModal >>
    ]_vars

\* a round_start has just been handled while a word was on display and a
\* card was marked: the word is still there
C22_Witness ==
  /\ lastEvent.op = "round_start"
  /\ currentLanguage = "dutch"
  /\ currentWord = "SOL"
  /\ \E i \in 1..Len(bingoCards) : bingoCards[i].markedWords = <<"SOL">>

\* C23: gameStarted is false until a game_started event is handled, that
\* event makes it true, and no step makes it false again.
C23_GameStartedMonotonic ==
  [][ /\ nEvents = 0 => ~gameStarted
      /\ gameStarted => gameStarted'
      /\ OnGameStarted => gameStarted'
      /\ (~gameStarted /\ gameStarted') => OnGameStarted
    ]_vars

\* the game has started and a game_end has been handled after it, as the
\* third message of the session
C23_Witness ==
  /\ gameStarted
  /\ nEvents = 3
  /\ lastEvent.op = "game_end"
  /\ showWinnersModal

\* the step handles an inbound message
InboundStep == nEvents' = nEvents + 1

\* C24: game_end publishes the final-winners notification with the winners
\* of the event, and once it has been handled no later inbound message
\* changes the round/game state or the marks of the cards.
C24_GameEndTerminal ==
  [][ /\ \A eventWinners \in WinnerLists :
           OnGameEnd(eventWinners)
           => (winners' = eventWinners /\ showWinnersModal')
      /\ (showWinnersModal /\ InboundStep)
           => /\ UNCHANGED << currentWord, currentLanguage, playerCount, gameStarted,
                              roundWinners, roundLanguage, showRoundWinnersModal >>
              /\ MarkedWordsOf(bingoCards') = MarkedWordsOf(bingoCards)
    ]_vars

\* ------------------------------------------------------- the selected card
\* C25: once a word_selected event has been handled (its word is on
\* display), only the deferred selection changes selectedCardIndex: no
\* click on the card list does.
C25_SelectionNotUserOverridden ==
  [][ (currentWord # "" /\ selectedCardIndex' # selectedCardIndex) => SelTimerFire ]_vars

\* C26: whenever the store holds a card, selectedCardIndex is an index of
\* the store: 0 <= selectedCardIndex < number of cards.
C26_SelectedIndexValid ==
  Len(bingoCards) > 0 => selectedCardIndex \in 0..(Len(bingoCards) - 1)

\* ------------------------------------------------------------- termination
\* cards of the store the sequencer has not taken yet
Untransmitted == Cardinality({i \in 1..Len(bingoCards) : ~bingoCards[i].transmitted})

Idle == ~isTransmitting /\ txTimers = << >>

\* C27: a running send loop goes idle, with the is-running flag false and
\* no continuation scheduled, after at most one step per card: every step of
\* the loop takes one untransmitted card or ends the loop, and a loop that
\* runs is eventually idle.
C27_SequencerTerminates ==
  /\ [][ TxTimerFire => (Untransmitted' < Untransmitted \/ Idle') ]_vars
  /\ (isTransmitting ~> Idle)

\* the loop has sent three cards on the open channel and is idle
C27_Witness ==
  /\ IsOpen
  /\ Idle
  /\ Len(bingoCards) = 3
  /\ Untransmitted = 0
  /\ Len(BingoCardFrames) = 3

====
